---- MODULE Spec2Model ----
(***************************************************************************)
(* A model of codahale/buster: the load generators (generators.go), the    *)
(* Bench.Run / Bench.AutoRun orchestration (buster.go) and the Step        *)
(* functions (steps.go).                                                   *)
(*                                                                         *)
(* Three specifications share the module:                                  *)
(*   SpecStep  the Step functions driven the way steps_test.go drives them *)
(*   SpecAuto  Bench.AutoRun, one action per statement of its loop         *)
(*   Spec      Bench.Run: the orchestrator, its N worker goroutines, the   *)
(*             two wait groups, the two channels, the generators' loops    *)
(*             and a discrete clock                                        *)
(* Times are in abstract clock units; one unit stands for both a           *)
(* microsecond of latency and a unit of time.Duration, except in the Step  *)
(* functions, where latencies are microseconds and thresholds nanoseconds  *)
(* as in the source.                                                       *)
(***************************************************************************)
EXTENDS Integers, Sequences, FiniteSets, Bags, TLC

\* ------------------------------------------------------------------------
\* Step harness and AutoRun state
VARIABLES
    stepCfg,     \* the Step under test: FixedStep alone, or wrapped by MaxLatency / Log
    last,        \* the *Result handed to the step on the next call (None before the first)
    levels,      \* the levels the step has returned so far, in order
    innerCalls,  \* how many times the wrapped (inner) step has been called
    logLines,    \* how many lines Log has printed
    stepArg,     \* the argument of the most recent call of the step (None for nil)
    stepRet      \* what the most recent call returned: level, inner calls, lines printed

stepVars == <<stepCfg, last, levels, innerCalls, logLines, stepArg, stepRet>>

\* Bench.AutoRun's locals
VARIABLES
    apc,          \* where AutoRun is: "start", "loop", "run", "step", "check", "done"
    concurrency,  \* its local concurrency
    results       \* its local results, the slice it returns

autoVars == <<apc, concurrency, results>>

\* Bench.Run: the orchestrator, its worker goroutines and the clock
VARIABLES
    call,      \* this call of Run: the Bench b, the concurrency and the job
    now,       \* the clock, what time.Now() returns
    opc,       \* where the orchestrator is in Run
    spawned,   \* i of the spawning loop: the goroutines started so far
    startT,    \* the local start of Run
    started,   \* the counter of the wait group started
    finished,  \* the counter of the wait group finished
    wpc,       \* where each worker goroutine is
    hist,      \* each worker's r.hist
    end,       \* each worker's deadline: end (unthrottled), the instant timeout fires (constant rate)
    tick,      \* the tick buffered in each worker's ticker.C: its time, or NoTick
    opStart,   \* each worker's local start
    ops,       \* how many times each worker has invoked the operation
    succeeded, \* how many of each worker's operations have returned nil
    logged,    \* how many errors of the histogram the generators have logged
    jobErr,    \* what each worker's job returned
    timings,   \* the channel timings: pointers to histograms, by worker id
    errors,    \* the channel errors
    result     \* Run's local result; the workers add to its Success and Failure

runVars == <<call, now, opc, spawned, startT, started, finished, wpc, hist, end,
             tick, opStart, ops, succeeded, logged, jobErr, timings, errors, result>>

vars == <<stepVars, autoVars, runVars>>

\* what a call of Run leaves alone
otherVars == <<stepVars, autoVars>>

\* ------------------------------------------------------------------------
\* Constants of the program and bounds of the model

STOP == -1

\* the nil pointer, the nil error
None == [none |-> TRUE]

\* FixedStep parameters explored besides the ones the tests use
MaxMin == 3
MaxInc == 4
MaxMax == 8

\* the most job-level errors an abstracted run reports
MaxErrors == 2

\* the clock stops here
MaxTime == 3

\* the most operations one worker invokes in a run
MaxOps == 2

\* the highest Bench.MaxLatency of a call, in microseconds: the highest value
\* the histograms track
HistMax == 2

\* ------------------------------------------------------------------------
\* The latency histogram (external collaborator): a bag of recorded values

EmptyHist == EmptyBag

RecordValue(h, v) == h (+) SetToBag({v})

CountUpTo(h, v) == BagCardinality([u \in {x \in DOMAIN h : x <= v} |-> h[u]])

SetMin(S) == CHOOSE x \in S : \A y \in S : x <= y

\* the smallest recorded value whose cumulative count reaches q percent of the total
ValueAtQuantile(h, q) ==
    LET total == BagCardinality(h)
        countAtPercentile == (q * total + 50) \div 100
        reached == {v \in DOMAIN h : CountUpTo(h, v) >= countAtPercentile}
    IN  IF reached = {} THEN 0 ELSE SetMin(reached)

\* ------------------------------------------------------------------------
\* Step functions.  A step applied to r (None for the nil pointer) yields a level.

\* faulty variant: adds the increment without rounding down to a multiple first
FixedStep_NoRounding(min, max, step, r) ==
    IF r = None THEN min
    ELSE IF r.Concurrency >= max THEN STOP
    ELSE r.Concurrency + step

\* faulty variant: stops only once the previous level is above max
FixedStep_StopsAboveMax(min, max, step, r) ==
    IF r = None THEN min
    ELSE IF r.Concurrency > max THEN STOP
    ELSE (r.Concurrency \div step) * step + step

\* faulty variant: rounds down to a multiple of the increment and adds nothing
FixedStep_RoundsOnly(min, max, step, r) ==
    IF r = None THEN min
    ELSE IF r.Concurrency >= max THEN STOP
    ELSE (r.Concurrency \div step) * step

FixedStep(min, max, step, r) ==
    IF r = None THEN min
    ELSE IF r.Concurrency >= max THEN STOP
    ELSE (r.Concurrency \div step) * step + step

\* faulty variant: stops already when the latency equals the threshold
MaxLatency_StopsAtThreshold(q, max, inner, r) ==
    IF r # None /\ ValueAtQuantile(r.Latency, q) * 1000 >= max
    THEN [level |-> STOP, innerCalls |-> 0, logLines |-> 0]
    ELSE [level |-> inner, innerCalls |-> 1, logLines |-> 0]

\* faulty variant: prints on the initial call as well
Log_PrintsAlways(inner, r) ==
    [level |-> inner, innerCalls |-> 1, logLines |-> 1]

\* The wrappers report, besides the level, whether they called the inner step
\* and whether they printed; inner is the level the inner step returns for r.
MaxLatency(q, max, inner, r) ==
    IF r # None /\ ValueAtQuantile(r.Latency, q) * 1000 > max
    THEN [level |-> STOP, innerCalls |-> 0, logLines |-> 0]
    ELSE [level |-> inner, innerCalls |-> 1, logLines |-> 0]

Log(inner, r) ==
    [level |-> inner, innerCalls |-> 1, logLines |-> IF r # None THEN 1 ELSE 0]

\* the step a test or a caller of AutoRun has built from cfg, applied to r
CallStep(cfg, r) ==
    LET inner == FixedStep(cfg.min, cfg.max, cfg.step, r)
    IN  CASE cfg.kind = "fixed"  -> [level |-> inner, innerCalls |-> 0, logLines |-> 0]
          [] cfg.kind = "maxlat" -> MaxLatency(cfg.q, cfg.maxNs, inner, r)
          [] cfg.kind = "log"    -> Log(inner, r)

\* ------------------------------------------------------------------------
\* SpecStep: the loop of TestFixedStep / TestMaxLatency / TestLog

NewResult(c, h) ==
    [Concurrency |-> c, Elapsed |-> 0, Success |-> 0, Failure |-> 0,
     Latency |-> h, Errors |-> <<>>]

Pow2(n) == 2 ^ n

\* thresholds of MaxLatency, in nanoseconds (40 microseconds is the test's)
Thresholds == {40000, 3000}

\* latencies, in microseconds, a run may have recorded: around both thresholds
FreeSamples == {2, 3, 4, 39, 40, 41}

\* the same, just at and just above the test's threshold
EdgeSamples == {40, 41}

FixedParams ==
    {<<1, 100, 10>>, <<1, 100, 5>>}
    \cup {<<mn, mx, st>> \in (1..MaxMin) \X (1..MaxMax) \X (1..MaxInc) : mx >= mn}

StepCfgs ==
    {[kind |-> k, min |-> p[1], max |-> p[2], step |-> p[3],
      q |-> 99, maxNs |-> 0, samples |-> "none"] :
        k \in {"fixed", "log"}, p \in FixedParams}
    \cup
    {[kind |-> "maxlat", min |-> p[1], max |-> p[2], step |-> p[3],
      q |-> 99, maxNs |-> t, samples |-> s] :
        p \in FixedParams, t \in Thresholds, s \in {"pow2", "free"}}

\* what the test records into result.Latency before it calls the step again
SamplesAt(cfg, c) ==
    CASE cfg.samples = "none" -> {<<>>}
      [] cfg.samples = "pow2" -> {<<Pow2(c)>>}
      [] cfg.samples = "free" -> {<<v>> : v \in FreeSamples}
      [] cfg.samples = "edge" -> {<<v>> : v \in EdgeSamples}

\* Run has not been called
RunIdle ==
    /\ call = None
    /\ now = 0
    /\ opc = "idle"
    /\ spawned = 0
    /\ startT = 0
    /\ started = 0
    /\ finished = 0
    /\ wpc = <<>>
    /\ hist = <<>>
    /\ end = <<>>
    /\ tick = <<>>
    /\ opStart = <<>>
    /\ ops = <<>>
    /\ succeeded = <<>>
    /\ logged = 0
    /\ jobErr = <<>>
    /\ timings = <<>>
    /\ errors = <<>>
    /\ result = None

\* AutoRun has not been called
AutoIdle ==
    /\ apc = "idle"
    /\ concurrency = 0
    /\ results = <<>>

StepInit ==
    /\ AutoIdle
    /\ RunIdle
    /\ stepCfg \in StepCfgs
    /\ last = None
    /\ levels = <<>>
    /\ innerCalls = 0
    /\ logLines = 0
    /\ stepArg = None
    /\ stepRet = None

\* result.Concurrency = step(nil)
TestInitial ==
    /\ levels = <<>>
    /\ LET ret == CallStep(stepCfg, None)
       IN  /\ last' = NewResult(ret.level, EmptyHist)
           /\ levels' = <<ret.level>>
           /\ innerCalls' = innerCalls + ret.innerCalls
           /\ logLines' = logLines + ret.logLines
           /\ stepArg' = None
           /\ stepRet' = ret
    /\ UNCHANGED <<stepCfg, autoVars, runVars>>

\* for result.Concurrency > 0 { record; result.Concurrency = step(&result) }
TestNext ==
    /\ levels # <<>>
    /\ last.Concurrency > 0
    /\ \E s \in SamplesAt(stepCfg, last.Concurrency) :
         LET r == IF s = <<>> THEN last
                  ELSE [last EXCEPT !.Latency = RecordValue(@, s[1])]
             ret == CallStep(stepCfg, r)
         IN  /\ last' = [r EXCEPT !.Concurrency = ret.level]
             /\ levels' = Append(levels, ret.level)
             /\ innerCalls' = innerCalls + ret.innerCalls
             /\ logLines' = logLines + ret.logLines
             /\ stepArg' = r
             /\ stepRet' = ret
    /\ UNCHANGED <<stepCfg, autoVars, runVars>>

StepNext == TestInitial \/ TestNext

SpecStep == StepInit /\ [][StepNext]_vars

\* ------------------------------------------------------------------------
\* SpecAuto: Bench.AutoRun.  Bench.Run is taken here by what it returns: a
\* Result with Concurrency set to the level, the job-level errors of the run
\* and the merged histogram (Spec below models how Run gets there).

Min(a, b) == IF a <= b THEN a ELSE b

Errs(k) == [i \in 1..k |-> "err"]

Hists(cfg, c) ==
    {IF s = <<>> THEN EmptyHist ELSE RecordValue(EmptyHist, s[1]) : s \in SamplesAt(cfg, c)}

\* the Results b.Run(c, job) can return, over all jobs
RunResults(cfg, c) ==
    {[Concurrency |-> c, Elapsed |-> 0, Success |-> 0, Failure |-> 0,
      Latency |-> h, Errors |-> Errs(k)] :
        h \in Hists(cfg, c), k \in 0..Min(c, MaxErrors)}

\* the steps AutoRun is called with: every run has a histogram of its own, so
\* the MaxLatency steps see one latency per run
AutoCfgs ==
    {c \in StepCfgs : c.kind \in {"fixed", "log"} \/ c.samples = "pow2"}
    \cup {[c EXCEPT !.samples = "edge"] :
            c \in {d \in StepCfgs : d.samples = "free" /\ d.max <= MaxMax}}

AutoInit ==
    /\ stepCfg \in AutoCfgs
    /\ last = None
    /\ levels = <<>>
    /\ innerCalls = 0
    /\ logLines = 0
    /\ stepArg = None
    /\ stepRet = None
    /\ apc = "start"
    /\ concurrency = 0
    /\ results = <<>>
    /\ RunIdle

\* concurrency := step(nil)
AutoFirstStep ==
    /\ apc = "start"
    /\ LET ret == CallStep(stepCfg, None)
       IN  /\ concurrency' = ret.level
           /\ levels' = Append(levels, ret.level)
           /\ innerCalls' = innerCalls + ret.innerCalls
           /\ logLines' = logLines + ret.logLines
           /\ stepArg' = None
           /\ stepRet' = ret
    /\ apc' = "loop"
    /\ UNCHANGED <<stepCfg, last, results, runVars>>

\* faulty variant: the loop goes on only above 1
AutoLoop_AboveOne ==
    /\ apc = "loop"
    /\ apc' = IF concurrency > 1 THEN "run" ELSE "done"
    /\ UNCHANGED <<stepVars, concurrency, results, runVars>>

\* for concurrency > 0
AutoLoop ==
    /\ apc = "loop"
    /\ apc' = IF concurrency > 0 THEN "run" ELSE "done"
    /\ UNCHANGED <<stepVars, concurrency, results, runVars>>

\* result := b.Run(concurrency, job); results = append(results, result)
AutoRunCall ==
    /\ apc = "run"
    /\ \E r \in RunResults(stepCfg, concurrency) :
         /\ last' = r
         /\ results' = Append(results, r)
    /\ apc' = "step"
    /\ UNCHANGED <<stepCfg, levels, innerCalls, logLines, stepArg, stepRet, concurrency, runVars>>

\* faulty variant: the step is not called for a Result that has errors
AutoStep_SkipsOnErrors ==
    /\ apc = "step"
    /\ IF Len(last.Errors) > 0
       THEN UNCHANGED <<concurrency, levels, innerCalls, logLines, stepArg, stepRet>>
       ELSE LET ret == CallStep(stepCfg, last)
            IN  /\ concurrency' = ret.level
                /\ levels' = Append(levels, ret.level)
                /\ innerCalls' = innerCalls + ret.innerCalls
                /\ logLines' = logLines + ret.logLines
                /\ stepArg' = last
                /\ stepRet' = ret
    /\ apc' = "check"
    /\ UNCHANGED <<stepCfg, last, results, runVars>>

\* concurrency = step(&result)
AutoStep ==
    /\ apc = "step"
    /\ LET ret == CallStep(stepCfg, last)
       IN  /\ concurrency' = ret.level
           /\ levels' = Append(levels, ret.level)
           /\ innerCalls' = innerCalls + ret.innerCalls
           /\ logLines' = logLines + ret.logLines
           /\ stepArg' = last
           /\ stepRet' = ret
    /\ apc' = "check"
    /\ UNCHANGED <<stepCfg, last, results, runVars>>

\* faulty variant: the break on job-level errors is missing
AutoCheck_NoBreak ==
    /\ apc = "check"
    /\ apc' = "loop"
    /\ UNCHANGED <<stepVars, concurrency, results, runVars>>

\* if len(result.Errors) > 0 { break }
AutoCheck ==
    /\ apc = "check"
    /\ apc' = IF Len(last.Errors) > 0 THEN "done" ELSE "loop"
    /\ UNCHANGED <<stepVars, concurrency, results, runVars>>

AutoNext == AutoFirstStep \/ AutoLoop \/ AutoRunCall \/ AutoStep \/ AutoCheck

SpecAuto == AutoInit /\ [][AutoNext]_vars

\* ------------------------------------------------------------------------
\* Spec: one call of Bench.Run.  The clock moves only while some worker is
\* inside Generator.Do; an operation may take any time, also none.

Workers == 0..(call.N - 1)

NoTick == -1

\* the concurrency levels Run is called with
Concurrencies == {1, 2}

\* the clock counts microseconds: the durations given to MaxThroughput and
\* ConstantRate, and the rates given to ConstantRate, in operations per second
Durations == {1, 2}
Rates == {1000000, 400000}

\* faulty variant: the period is rounded up to the next microsecond
ConstantRate_RoundsUp(duration, Hz) ==
    [gen |-> "const", duration |-> duration, period |-> (1000000 + Hz - 1) \div Hz]

\* period := time.Duration((1/Hz)*1000000) * time.Microsecond
ConstantRate(duration, Hz) ==
    [gen |-> "const", duration |-> duration, period |-> 1000000 \div Hz]

MaxThroughput(duration) ==
    [gen |-> "max", duration |-> duration, period |-> 0]

\* job "do" returns gen.Do(operation); "fatal" returns an error at once;
\* "mixed" may or may not call Do and returns nil or an error.
\* op "ok": the operation always returns nil; "err": always an error.
JobOps == {<<"do", "ok">>, <<"do", "err">>, <<"mixed", "mixed">>}

\* Bench{Generator: g, MaxLatency: maxLatency}.Run(n, job); Hz is the rate g
\* was made with, MaxLatency is in microseconds
Call(n, maxLatency, g, hz, job, op) ==
    [N |-> n, MaxLatency |-> maxLatency, gen |-> g.gen, duration |-> g.duration,
     period |-> g.period, Hz |-> hz, job |-> job, op |-> op]

\* the last set: one worker at a constant rate with a lower MaxLatency
Calls ==
    {Call(n, HistMax, MaxThroughput(d), 0, jo[1], jo[2]) :
        n \in Concurrencies, d \in Durations, jo \in JobOps}
    \cup
    {Call(n, HistMax, ConstantRate(d, hz), hz, jo[1], jo[2]) :
        n \in Concurrencies, d \in Durations, hz \in Rates, jo \in JobOps}
    \cup
    {Call(n, HistMax, MaxThroughput(1), 0, "fatal", "ok") : n \in Concurrencies}
    \cup
    {Call(1, HistMax - 1, ConstantRate(d, hz), hz, "do", "ok") :
        d \in Durations, hz \in Rates}

\* errors.New("woo hoo"), as returned by worker w's job
Err(w) == [err |-> "woo hoo", worker |-> w]

\* the histogram takes values up to its highest trackable value
Accepts(v) == v <= call.MaxLatency

Merge(h, other) == h (+) other

RECURSIVE FillMissing(_, _, _)
FillMissing(h, missingValue, expectedInterval) ==
    IF missingValue >= expectedInterval
    THEN FillMissing(RecordValue(h, missingValue), missingValue - expectedInterval,
                     expectedInterval)
    ELSE h

\* records v and, when v is above the expected interval, the values the
\* missed samples would have had: v - interval, v - 2*interval, ...
RecordCorrectedValue(h, v, expectedInterval) ==
    IF expectedInterval <= 0 \/ v <= expectedInterval
    THEN RecordValue(h, v)
    ELSE FillMissing(RecordValue(h, v), v - expectedInterval, expectedInterval)

\* faulty variant: an equal instant counts as before
Before_OrEqual(t, u) == t <= u

\* t.Before(u)
Before(t, u) == t < u

\* what the job returns after gen.Do has returned nil
JobReturns(w) ==
    IF call.job = "mixed" THEN {None, Err(w)} ELSE {None}

\* whether the operation returns an error
OpFails ==
    CASE call.op = "ok" -> {FALSE}
      [] call.op = "err" -> {TRUE}
      [] call.op = "mixed" -> BOOLEAN

OtherIdle ==
    /\ stepCfg = None
    /\ last = None
    /\ levels = <<>>
    /\ innerCalls = 0
    /\ logLines = 0
    /\ stepArg = None
    /\ stepRet = None
    /\ AutoIdle

\* Run up to the spawning loop: the wait groups, result, the channels
Init ==
    /\ OtherIdle
    /\ call \in Calls
    /\ now = 0
    /\ opc = "spawn"
    /\ spawned = 0
    /\ startT = 0
    /\ started = 1
    /\ finished = call.N
    /\ wpc = [w \in Workers |-> "unspawned"]
    /\ hist = [w \in Workers |-> EmptyHist]
    /\ end = [w \in Workers |-> 0]
    /\ tick = [w \in Workers |-> NoTick]
    /\ opStart = [w \in Workers |-> 0]
    /\ ops = [w \in Workers |-> 0]
    /\ succeeded = [w \in Workers |-> 0]
    /\ logged = 0
    /\ jobErr = [w \in Workers |-> None]
    /\ timings = <<>>
    /\ errors = <<>>
    /\ result = [Concurrency |-> call.N, Elapsed |-> 0, Success |-> 0, Failure |-> 0,
                 Latency |-> EmptyHist, Errors |-> <<>>]

\* ---- the orchestrator

\* for i := 0; i < concurrency; i++ { go func(id int) {...}(i) }
Spawn ==
    /\ opc = "spawn"
    /\ spawned < call.N
    /\ wpc' = [wpc EXCEPT ![spawned] = "init"]
    /\ spawned' = spawned + 1
    /\ UNCHANGED <<otherVars, call, now, opc, startT, started, finished, hist, end, tick,
                   opStart, ops, jobErr, timings, errors, result, succeeded, logged>>

\* start := time.Now()
TakeStart ==
    /\ opc = "spawn"
    /\ spawned = call.N
    /\ startT' = now
    /\ opc' = "release"
    /\ UNCHANGED <<otherVars, call, now, spawned, started, finished, wpc, hist, end, tick,
                   opStart, ops, jobErr, timings, errors, result, succeeded, logged>>

\* started.Done()
Release ==
    /\ opc = "release"
    /\ started' = started - 1
    /\ opc' = "join"
    /\ UNCHANGED <<otherVars, call, now, spawned, startT, finished, wpc, hist, end, tick,
                   opStart, ops, jobErr, timings, errors, result, succeeded, logged>>

\* faulty variant: the orchestrator does not wait for the workers
Join_NoWait ==
    /\ opc = "join"
    /\ opc' = "elapsed"
    /\ UNCHANGED <<otherVars, call, now, spawned, startT, started, finished, wpc, hist, end,
                   tick, opStart, ops, jobErr, timings, errors, result, succeeded, logged>>

\* finished.Wait()
Join ==
    /\ opc = "join"
    /\ finished = 0
    /\ opc' = "elapsed"
    /\ UNCHANGED <<otherVars, call, now, spawned, startT, started, finished, wpc, hist, end,
                   tick, opStart, ops, jobErr, timings, errors, result, succeeded, logged>>

\* result.Elapsed = time.Now().Sub(start); close(timings)
TakeElapsed ==
    /\ opc = "elapsed"
    /\ result' = [result EXCEPT !.Elapsed = now - startT]
    /\ opc' = "merge"
    /\ UNCHANGED <<otherVars, call, now, spawned, startT, started, finished, wpc, hist, end,
                   tick, opStart, ops, jobErr, timings, errors, succeeded, logged>>

\* faulty variant: the received histogram replaces the aggregate
MergeTimings_KeepsLast ==
    /\ opc = "merge"
    /\ IF timings # <<>>
       THEN /\ result' = [result EXCEPT !.Latency = hist[Head(timings)]]
            /\ timings' = Tail(timings)
            /\ opc' = opc
       ELSE /\ opc' = "collect"
            /\ UNCHANGED <<result, timings>>
    /\ UNCHANGED <<otherVars, call, now, spawned, startT, started, finished, wpc, hist, end,
                   tick, opStart, ops, jobErr, errors, succeeded, logged>>

\* for v := range timings { result.Latency.Merge(v) }; close(errors)
MergeTimings ==
    /\ opc = "merge"
    /\ IF timings # <<>>
       THEN /\ result' = [result EXCEPT !.Latency = Merge(@, hist[Head(timings)])]
            /\ timings' = Tail(timings)
            /\ opc' = opc
       ELSE /\ opc' = "collect"
            /\ UNCHANGED <<result, timings>>
    /\ UNCHANGED <<otherVars, call, now, spawned, startT, started, finished, wpc, hist, end,
                   tick, opStart, ops, jobErr, errors, succeeded, logged>>

\* faulty variant: the nil check is missing
CollectErrors_KeepsNil ==
    /\ opc = "collect"
    /\ IF errors # <<>>
       THEN /\ result' = [result EXCEPT !.Errors = Append(@, Head(errors))]
            /\ errors' = Tail(errors)
            /\ opc' = opc
       ELSE /\ opc' = "done"
            /\ UNCHANGED <<result, errors>>
    /\ UNCHANGED <<otherVars, call, now, spawned, startT, started, finished, wpc, hist, end,
                   tick, opStart, ops, jobErr, timings, succeeded, logged>>

\* for e := range errors { if e != nil { result.Errors = append(result.Errors, e) } }
\* return result
CollectErrors ==
    /\ opc = "collect"
    /\ IF errors # <<>>
       THEN /\ result' = IF Head(errors) # None
                         THEN [result EXCEPT !.Errors = Append(@, Head(errors))]
                         ELSE result
            /\ errors' = Tail(errors)
            /\ opc' = opc
       ELSE /\ opc' = "done"
            /\ UNCHANGED <<result, errors>>
    /\ UNCHANGED <<otherVars, call, now, spawned, startT, started, finished, wpc, hist, end,
                   tick, opStart, ops, jobErr, timings, succeeded, logged>>

\* ---- a worker goroutine

\* r := reporter{hist: hdrhistogram.New(..), ..}; gen := b.Generator(r)
WorkerInit(w) ==
    /\ wpc[w] = "init"
    /\ hist' = [hist EXCEPT ![w] = EmptyHist]
    /\ wpc' = [wpc EXCEPT ![w] = "wait"]
    /\ UNCHANGED <<otherVars, call, now, opc, spawned, startT, started, finished, end, tick,
                   opStart, ops, jobErr, timings, errors, result, succeeded, logged>>

\* faulty variant: the worker does not wait for the start barrier
WorkerWait_NoBarrier(w) ==
    /\ wpc[w] = "wait"
    /\ wpc' = [wpc EXCEPT ![w] = "job"]
    /\ UNCHANGED <<otherVars, call, now, opc, spawned, startT, started, finished, hist, end,
                   tick, opStart, ops, jobErr, timings, errors, result, succeeded, logged>>

\* started.Wait()
WorkerWait(w) ==
    /\ wpc[w] = "wait"
    /\ started = 0
    /\ wpc' = [wpc EXCEPT ![w] = "job"]
    /\ UNCHANGED <<otherVars, call, now, opc, spawned, startT, started, finished, hist, end,
                   tick, opStart, ops, jobErr, timings, errors, result, succeeded, logged>>

\* faulty variant: a job's error cancels the deadlines of the other workers
JobReturnsAtOnce_AbortsSiblings(w) ==
    /\ wpc[w] = "job"
    /\ call.job \in {"fatal", "mixed"}
    /\ \E e \in (IF call.job = "fatal" THEN {Err(w)} ELSE {None, Err(w)}) :
         /\ jobErr' = [jobErr EXCEPT ![w] = e]
         /\ end' = IF e = None THEN end ELSE [v \in Workers |-> 0]
    /\ wpc' = [wpc EXCEPT ![w] = "senderr"]
    /\ UNCHANGED <<otherVars, call, now, opc, spawned, startT, started, finished, hist,
                   tick, opStart, ops, timings, errors, result, succeeded, logged>>

\* job(id, gen) returns without calling gen.Do
JobReturnsAtOnce(w) ==
    /\ wpc[w] = "job"
    /\ call.job \in {"fatal", "mixed"}
    /\ \E e \in (IF call.job = "fatal" THEN {Err(w)} ELSE {None, Err(w)}) :
         jobErr' = [jobErr EXCEPT ![w] = e]
    /\ wpc' = [wpc EXCEPT ![w] = "senderr"]
    /\ UNCHANGED <<otherVars, call, now, opc, spawned, startT, started, finished, hist, end,
                   tick, opStart, ops, timings, errors, result, succeeded, logged>>

\* job calls gen.Do: end := time.Now().Add(gen.duration), or
\* ticker := time.NewTicker(gen.period); timeout := time.After(gen.duration)
EnterDo(w) ==
    /\ wpc[w] = "job"
    /\ call.job \in {"do", "mixed"}
    /\ end' = [end EXCEPT ![w] = now + call.duration]
    /\ wpc' = [wpc EXCEPT ![w] = IF call.gen = "max" THEN "check" ELSE "select"]
    /\ UNCHANGED <<otherVars, call, now, opc, spawned, startT, started, finished, hist, tick,
                   opStart, ops, jobErr, timings, errors, result, succeeded, logged>>

\* maxThroughputGenerator.Do: start := time.Now(); if end.Before(start) { return nil }
MaxReturn(w) ==
    /\ wpc[w] = "check"
    /\ Before(end[w], now)
    /\ \E e \in JobReturns(w) : jobErr' = [jobErr EXCEPT ![w] = e]
    /\ end' = [end EXCEPT ![w] = 0]
    /\ wpc' = [wpc EXCEPT ![w] = "senderr"]
    /\ UNCHANGED <<otherVars, call, now, opc, spawned, startT, started, finished, hist,
                   tick, opStart, ops, timings, errors, result, succeeded, logged>>

\* maxThroughputGenerator.Do: start := time.Now(); the deadline has not passed; f()
MaxInvoke(w) ==
    /\ wpc[w] = "check"
    /\ ~Before(end[w], now)
    /\ ops[w] < MaxOps
    /\ opStart' = [opStart EXCEPT ![w] = now]
    /\ ops' = [ops EXCEPT ![w] = @ + 1]
    /\ wpc' = [wpc EXCEPT ![w] = "op"]
    /\ UNCHANGED <<otherVars, call, now, opc, spawned, startT, started, finished, hist, end,
                   tick, jobErr, timings, errors, result, succeeded, logged>>

\* faulty variant: a value the histogram rejects ends the iteration before success is counted
MaxOpDone_SkipsSuccess(w) ==
    /\ wpc[w] = "op"
    /\ call.gen = "max"
    /\ \E failed \in OpFails :
         IF failed
         THEN /\ result' = [result EXCEPT !.Failure = @ + 1]
              /\ hist' = hist
              /\ succeeded' = succeeded
              /\ logged' = logged
         ELSE LET elapsed == now - opStart[w]
              IN  /\ succeeded' = [succeeded EXCEPT ![w] = @ + 1]
                  /\ logged' = IF Accepts(elapsed) THEN logged ELSE logged + 1
                  /\ hist' = [hist EXCEPT ![w] =
                                IF Accepts(elapsed) THEN RecordValue(@, elapsed) ELSE @]
                  /\ result' = IF Accepts(elapsed)
                               THEN [result EXCEPT !.Success = @ + 1]
                               ELSE result
    /\ opStart' = [opStart EXCEPT ![w] = 0]
    /\ wpc' = [wpc EXCEPT ![w] = "check"]
    /\ UNCHANGED <<otherVars, call, now, opc, spawned, startT, started, finished, end, tick,
                   ops, jobErr, timings, errors>>

\* faulty variant: the continue is missing, a failed operation falls through to the recording
MaxOpDone_FallsThrough(w) ==
    /\ wpc[w] = "op"
    /\ call.gen = "max"
    /\ \E failed \in OpFails :
         LET elapsed == now - opStart[w]
         IN  /\ succeeded' = [succeeded EXCEPT ![w] = IF failed THEN @ ELSE @ + 1]
             /\ logged' = IF Accepts(elapsed) THEN logged ELSE logged + 1
             /\ hist' = [hist EXCEPT ![w] =
                           IF Accepts(elapsed) THEN RecordValue(@, elapsed) ELSE @]
             /\ result' = [result EXCEPT !.Success = @ + 1,
                                         !.Failure = IF failed THEN @ + 1 ELSE @]
    /\ opStart' = [opStart EXCEPT ![w] = 0]
    /\ wpc' = [wpc EXCEPT ![w] = "check"]
    /\ UNCHANGED <<otherVars, call, now, opc, spawned, startT, started, finished, end, tick,
                   ops, jobErr, timings, errors>>

\* faulty variant: Do returns the histogram's error instead of logging it
MaxOpDone_ReturnsOnReject(w) ==
    /\ wpc[w] = "op"
    /\ call.gen = "max"
    /\ \E failed \in OpFails :
         IF failed
         THEN /\ result' = [result EXCEPT !.Failure = @ + 1]
              /\ UNCHANGED <<hist, succeeded, jobErr, end>>
              /\ wpc' = [wpc EXCEPT ![w] = "check"]
         ELSE LET elapsed == now - opStart[w]
              IN  /\ succeeded' = [succeeded EXCEPT ![w] = @ + 1]
                  /\ IF Accepts(elapsed)
                     THEN /\ hist' = [hist EXCEPT ![w] = RecordValue(@, elapsed)]
                          /\ result' = [result EXCEPT !.Success = @ + 1]
                          /\ UNCHANGED <<jobErr, end>>
                          /\ wpc' = [wpc EXCEPT ![w] = "check"]
                     ELSE /\ jobErr' = [jobErr EXCEPT ![w] = Err(w)]
                          /\ end' = [end EXCEPT ![w] = 0]
                          /\ wpc' = [wpc EXCEPT ![w] = "senderr"]
                          /\ UNCHANGED <<hist, result>>
    /\ opStart' = [opStart EXCEPT ![w] = 0]
    /\ UNCHANGED <<otherVars, call, now, opc, spawned, startT, started, finished, tick,
                   ops, timings, errors, logged>>

\* maxThroughputGenerator.Do: f() has returned
MaxOpDone(w) ==
    /\ wpc[w] = "op"
    /\ call.gen = "max"
    /\ \E failed \in OpFails :
         IF failed
         THEN /\ result' = [result EXCEPT !.Failure = @ + 1]
              /\ hist' = hist
              /\ succeeded' = succeeded
              /\ logged' = logged
         ELSE LET elapsed == now - opStart[w]
              IN  /\ succeeded' = [succeeded EXCEPT ![w] = @ + 1]
                  /\ logged' = IF Accepts(elapsed) THEN logged ELSE logged + 1
                  /\ hist' = [hist EXCEPT ![w] =
                                IF Accepts(elapsed) THEN RecordValue(@, elapsed) ELSE @]
                  /\ result' = [result EXCEPT !.Success = @ + 1]
    /\ opStart' = [opStart EXCEPT ![w] = 0]
    /\ wpc' = [wpc EXCEPT ![w] = "check"]
    /\ UNCHANGED <<otherVars, call, now, opc, spawned, startT, started, finished, end, tick,
                   ops, jobErr, timings, errors>>

\* constantRateGenerator.Do: select, case start := <-ticker.C: f()
ConstTick(w) ==
    /\ wpc[w] = "select"
    /\ tick[w] # NoTick
    /\ ops[w] < MaxOps
    /\ opStart' = [opStart EXCEPT ![w] = tick[w]]
    /\ tick' = [tick EXCEPT ![w] = NoTick]
    /\ ops' = [ops EXCEPT ![w] = @ + 1]
    /\ wpc' = [wpc EXCEPT ![w] = "op"]
    /\ UNCHANGED <<otherVars, call, now, opc, spawned, startT, started, finished, hist, end,
                   jobErr, timings, errors, result, succeeded, logged>>

\* constantRateGenerator.Do: select, case <-timeout: return nil (and ticker.Stop())
ConstTimeout(w) ==
    /\ wpc[w] = "select"
    /\ now >= end[w]
    /\ \E e \in JobReturns(w) : jobErr' = [jobErr EXCEPT ![w] = e]
    /\ tick' = [tick EXCEPT ![w] = NoTick]
    /\ end' = [end EXCEPT ![w] = 0]
    /\ wpc' = [wpc EXCEPT ![w] = "senderr"]
    /\ UNCHANGED <<otherVars, call, now, opc, spawned, startT, started, finished, hist,
                   opStart, ops, timings, errors, result, succeeded, logged>>

\* faulty variant: the success and failure counters are swapped
ConstOpDone_SwapsCounters(w) ==
    /\ wpc[w] = "op"
    /\ call.gen = "const"
    /\ \E failed \in OpFails :
         IF failed
         THEN /\ result' = [result EXCEPT !.Success = @ + 1]
              /\ hist' = hist
              /\ succeeded' = succeeded
              /\ logged' = logged
         ELSE LET elapsed == now - opStart[w]
              IN  /\ succeeded' = [succeeded EXCEPT ![w] = @ + 1]
                  /\ logged' = IF Accepts(elapsed) THEN logged ELSE logged + 1
                  /\ hist' = [hist EXCEPT ![w] =
                                IF Accepts(elapsed)
                                THEN RecordCorrectedValue(@, elapsed, call.duration)
                                ELSE @]
                  /\ result' = [result EXCEPT !.Failure = @ + 1]
    /\ opStart' = [opStart EXCEPT ![w] = 0]
    /\ wpc' = [wpc EXCEPT ![w] = "select"]
    /\ UNCHANGED <<otherVars, call, now, opc, spawned, startT, started, finished, end, tick,
                   ops, jobErr, timings, errors>>

\* constantRateGenerator.Do: f() has returned
ConstOpDone(w) ==
    /\ wpc[w] = "op"
    /\ call.gen = "const"
    /\ \E failed \in OpFails :
         IF failed
         THEN /\ result' = [result EXCEPT !.Failure = @ + 1]
              /\ hist' = hist
              /\ succeeded' = succeeded
              /\ logged' = logged
         ELSE LET elapsed == now - opStart[w]
              IN  /\ succeeded' = [succeeded EXCEPT ![w] = @ + 1]
                  /\ logged' = IF Accepts(elapsed) THEN logged ELSE logged + 1
                  /\ hist' = [hist EXCEPT ![w] =
                                IF Accepts(elapsed)
                                THEN RecordCorrectedValue(@, elapsed, call.duration)
                                ELSE @]
                  /\ result' = [result EXCEPT !.Success = @ + 1]
    /\ opStart' = [opStart EXCEPT ![w] = 0]
    /\ wpc' = [wpc EXCEPT ![w] = "select"]
    /\ UNCHANGED <<otherVars, call, now, opc, spawned, startT, started, finished, end, tick,
                   ops, jobErr, timings, errors>>

\* faulty variant: the channel errors has no buffer, the send waits for a receiver
SendError_Unbuffered(w) ==
    /\ wpc[w] = "senderr"
    /\ opc = "collect"
    /\ errors' = Append(errors, jobErr[w])
    /\ wpc' = [wpc EXCEPT ![w] = "sendhist"]
    /\ UNCHANGED <<otherVars, call, now, opc, spawned, startT, started, finished, hist, end,
                   tick, opStart, ops, jobErr, timings, result, succeeded, logged>>

\* errors <- job(id, gen)
SendError(w) ==
    /\ wpc[w] = "senderr"
    /\ Len(errors) < call.N
    /\ errors' = Append(errors, jobErr[w])
    /\ wpc' = [wpc EXCEPT ![w] = "sendhist"]
    /\ UNCHANGED <<otherVars, call, now, opc, spawned, startT, started, finished, hist, end,
                   tick, opStart, ops, jobErr, timings, result, succeeded, logged>>

\* timings <- r.hist
SendTimings(w) ==
    /\ wpc[w] = "sendhist"
    /\ Len(timings) < call.N
    /\ timings' = Append(timings, w)
    /\ wpc' = [wpc EXCEPT ![w] = "defer"]
    /\ UNCHANGED <<otherVars, call, now, opc, spawned, startT, started, finished, hist, end,
                   tick, opStart, ops, jobErr, errors, result, succeeded, logged>>

\* defer finished.Done()
WorkerDone(w) ==
    /\ wpc[w] = "defer"
    /\ finished' = finished - 1
    /\ wpc' = [wpc EXCEPT ![w] = "exited"]
    /\ UNCHANGED <<otherVars, call, now, opc, spawned, startT, started, hist, end, tick,
                   opStart, ops, jobErr, timings, errors, result, succeeded, logged>>

\* ---- the clock and the runtime's timers

InDo(w) == wpc[w] \in {"check", "select", "op"}

\* the ticker of worker w, made at end[w] - duration, fires at t
TickDue(w, t) ==
    /\ call.gen = "const"
    /\ InDo(w)
    /\ t > end[w] - call.duration
    /\ (t - (end[w] - call.duration)) % call.period = 0

\* time passes; a ticker that fires puts the time into its channel of
\* capacity 1, or drops the tick when the channel is full
Tick ==
    /\ now < MaxTime
    /\ \E w \in Workers : InDo(w)
    /\ now' = now + 1
    /\ tick' = [w \in Workers |->
                  IF TickDue(w, now + 1) /\ tick[w] = NoTick THEN now + 1 ELSE tick[w]]
    /\ UNCHANGED <<otherVars, call, opc, spawned, startT, started, finished, wpc, hist, end,
                   opStart, ops, jobErr, timings, errors, result, succeeded, logged>>

Next ==
    \/ Spawn \/ TakeStart \/ Release \/ Join \/ TakeElapsed
    \/ MergeTimings \/ CollectErrors
    \/ \E w \in Workers : WorkerInit(w)
    \/ \E w \in Workers : WorkerWait(w)
    \/ \E w \in Workers : JobReturnsAtOnce(w)
    \/ \E w \in Workers : EnterDo(w)
    \/ \E w \in Workers : MaxReturn(w)
    \/ \E w \in Workers : MaxInvoke(w)
    \/ \E w \in Workers : MaxOpDone(w)
    \/ \E w \in Workers : ConstTick(w)
    \/ \E w \in Workers : ConstTimeout(w)
    \/ \E w \in Workers : ConstOpDone(w)
    \/ \E w \in Workers : SendError(w)
    \/ \E w \in Workers : SendTimings(w)
    \/ \E w \in Workers : WorkerDone(w)
    \/ Tick

Spec == Init /\ [][Next]_vars

\* ------------------------------------------------------------------------
\* Claims about the Step functions

IsPrefix(s, t) ==
    /\ Len(s) <= Len(t)
    /\ \A i \in 1..Len(s) : s[i] = t[i]

\* the harness has left its loop: the last level returned is not positive
StepEnded == levels # <<>> /\ levels[Len(levels)] <= 0

IsFixed(mn, mx, st) ==
    stepCfg.min = mn /\ stepCfg.max = mx /\ stepCfg.step = st

Levels_1_100_10 == <<1, 10, 20, 30, 40, 50, 60, 70, 80, 90, 100, STOP>>

\* C4: fed its own levels back, FixedStep(1,100,10) returns exactly
\* 1,10,20,...,100,STOP; in general the first call returns min, a call with
\* previous concurrency c < max returns floor(c/increment)*increment+increment
\* and a call with c >= max returns STOP.
C4_FixedStepSequence ==
    stepCfg.kind = "fixed" =>
        /\ IsFixed(1, 100, 10) =>
              /\ IsPrefix(levels, Levels_1_100_10)
              /\ StepEnded => levels = Levels_1_100_10
        /\ \A i \in 1..Len(levels) :
              IF i = 1 THEN levels[i] = stepCfg.min
              ELSE LET c == levels[i - 1]
                   IN  IF c >= stepCfg.max THEN levels[i] = STOP
                       ELSE levels[i] = (c \div stepCfg.step) * stepCfg.step + stepCfg.step

C4_Witness ==
    stepCfg.kind = "fixed" /\ IsFixed(1, 100, 10) /\ levels = Levels_1_100_10

\* the positive levels returned so far
Positive == SelectSeq(levels, LAMBDA l : l > 0)

\* C5 as stated: the levels are min, min+increment, min+2*increment, ... up to
\* and including max, then STOP.
C5_ArithmeticFromMin ==
    stepCfg.kind = "fixed" =>
        /\ \A i \in 1..Len(Positive) :
              /\ Positive[i] = stepCfg.min + (i - 1) * stepCfg.step
              /\ Positive[i] <= stepCfg.max
        /\ StepEnded => Positive[Len(Positive)] = stepCfg.max

\* C5 amended: the levels are min followed, while the latest level is below
\* max, by the next multiple of increment above it, (floor(min/increment) + k)
\* * increment for k = 1, 2, ...; the last level is the first one that is
\* >= max, and STOP follows it.
C5_MultiplesOfIncrement ==
    stepCfg.kind = "fixed" =>
        /\ \A i \in 1..Len(Positive) :
              /\ i = 1 => Positive[i] = stepCfg.min
              /\ i > 1 => Positive[i] = ((stepCfg.min \div stepCfg.step) + (i - 1)) * stepCfg.step
              /\ i < Len(Positive) => Positive[i] < stepCfg.max
        /\ IsPrefix(Positive, levels)
        /\ Len(levels) <= Len(Positive) + 1
        /\ StepEnded =>
              /\ levels = Append(Positive, STOP)
              /\ Positive[Len(Positive)] >= stepCfg.max

\* a finished sequence that starts off the increment's grid and ends above max
C5_Witness ==
    /\ stepCfg.kind = "fixed"
    /\ StepEnded
    /\ Len(Positive) >= 3
    /\ stepCfg.min % stepCfg.step # 0
    /\ Positive[Len(Positive)] > stepCfg.max

Levels_MaxLatency == <<1, 5, 10, STOP>>

\* C6: MaxLatency returns STOP without calling inner exactly when the previous
\* Result's latency at quantile q, converted from microseconds to nanoseconds,
\* is strictly greater than the threshold; otherwise, and on the initial call,
\* it returns inner's value.  With FixedStep(1,100,5), 40 microseconds and
\* p99 = 2^c microseconds at concurrency c the levels are 1,5,10,STOP.
C6_MaxLatencyStops ==
    (stepCfg.kind = "maxlat" /\ stepRet # None) =>
        LET over == /\ stepArg # None
                    /\ ValueAtQuantile(stepArg.Latency, stepCfg.q) * 1000 > stepCfg.maxNs
            inner == FixedStep(stepCfg.min, stepCfg.max, stepCfg.step, stepArg)
        IN  /\ over <=> (stepRet.level = STOP /\ stepRet.innerCalls = 0)
            /\ ~over => (stepRet.level = inner /\ stepRet.innerCalls = 1)
            /\ (IsFixed(1, 100, 5) /\ stepCfg.maxNs = 40000 /\ stepCfg.samples = "pow2") =>
                  /\ IsPrefix(levels, Levels_MaxLatency)
                  /\ StepEnded => levels = Levels_MaxLatency

C6_Witness ==
    /\ stepCfg.kind = "maxlat" /\ IsFixed(1, 100, 5)
    /\ stepCfg.maxNs = 40000 /\ stepCfg.samples = "pow2"
    /\ levels = Levels_MaxLatency
    /\ stepRet.innerCalls = 0

\* C7: Log returns for every input exactly what inner returns for it, calls
\* inner exactly once per call, and prints only on non-initial calls.
C7_LogTransparent ==
    (stepCfg.kind = "log" /\ stepRet # None) =>
        /\ stepRet.level = FixedStep(stepCfg.min, stepCfg.max, stepCfg.step, stepArg)
        /\ stepRet.innerCalls = 1
        /\ stepRet.logLines = (IF stepArg = None THEN 0 ELSE 1)
        /\ innerCalls = Len(levels)
        /\ logLines = Len(levels) - 1
        /\ IsFixed(1, 100, 10) => IsPrefix(levels, Levels_1_100_10)

\* TestLog: step(nil) = 1, then step(&Result{Concurrency: 1}) = 10, one line printed
C7_Witness ==
    /\ stepCfg.kind = "log" /\ IsFixed(1, 100, 10)
    /\ levels = <<1, 10>>
    /\ stepArg # None /\ stepArg.Concurrency = 1
    /\ logLines = 1 /\ innerCalls = 2

\* ------------------------------------------------------------------------
\* Claims about AutoRun

NoJobErrors == \A i \in 1..Len(results) : results[i].Errors = <<>>

\* C8: AutoRun never appends a second Result after one with job-level errors:
\* only the last Result of the sequence can have a non-empty Errors list,
\* whatever level the step returned for it.
C8_ErrorsOnlyInLastResult ==
    \A i \in 1..Len(results) : results[i].Errors # <<>> => i = Len(results)

\* AutoRun returned two Results; the second has errors and the step had
\* answered it with a positive level
C8_Witness ==
    /\ apc = "done"
    /\ Len(results) = 2
    /\ results[2].Errors # <<>>
    /\ concurrency > 0

\* C9: with no job-level error AutoRun returns one Result per positive level
\* the step emits, in emission order, results[0] at step(nil) and results[i+1]
\* at step(results[i]); it ends at the first level that is not positive, for
\* which Run is not called.  FixedStep(1,100,10) gives 11 Results at
\* 1,10,20,...,100.
C9_OneResultPerPositiveLevel ==
    /\ \A i \in 1..Len(results) :
          /\ results[i].Concurrency > 0
          /\ results[i].Concurrency =
                CallStep(stepCfg, IF i = 1 THEN None ELSE results[i - 1]).level
    /\ (apc = "done" /\ NoJobErrors) =>
          /\ CallStep(stepCfg, IF results = <<>> THEN None
                                ELSE results[Len(results)]).level <= 0
          /\ [i \in 1..Len(results) |-> results[i].Concurrency] = Positive
          /\ (stepCfg.kind \in {"fixed", "log"} /\ IsFixed(1, 100, 10)) =>
                Append([i \in 1..Len(results) |-> results[i].Concurrency], STOP)
                    = Levels_1_100_10

C9_Witness ==
    /\ apc = "done"
    /\ NoJobErrors
    /\ stepCfg.kind = "fixed" /\ IsFixed(1, 100, 10)
    /\ Len(results) = 11
    /\ results[11].Concurrency = 100

\* ------------------------------------------------------------------------
\* Claims about Bench.Run and the generators

RECURSIVE SumOver(_, _)
SumOver(f, S) ==
    IF S = {} THEN 0
    ELSE LET x == CHOOSE y \in S : TRUE IN f[x] + SumOver(f, S \ {x})

\* the operations the workers have invoked
Invoked == SumOver(ops, Workers)

Returned == opc = "done"

AlwaysSucceeds == call.job = "do" /\ call.op = "ok"

AlwaysErrors == call.job = "do" /\ call.op = "err"

\* C1 as stated: a run whose operations always succeed and whose job returns
\* no fatal error ends with Concurrency = N, no Errors and Success > 0.
C1_SuccessPositive ==
    (Returned /\ AlwaysSucceeds) =>
        /\ result.Concurrency = call.N
        /\ result.Errors = <<>>
        /\ result.Success > 0

\* C1 amended: such a run ends with Concurrency = N, no Errors, Failure = 0
\* and Success equal to the number of operations the workers invoked, which
\* is positive only if some worker invoked the operation before its deadline.
C1_SuccessCountsOperations ==
    (Returned /\ AlwaysSucceeds) =>
        /\ result.Concurrency = call.N
        /\ result.Errors = <<>>
        /\ result.Failure = 0
        /\ result.Success = Invoked

\* both workers of a constant-rate run have had operations succeed
C1_Witness ==
    /\ Returned /\ AlwaysSucceeds
    /\ call.N = 2 /\ call.gen = "const"
    /\ \A w \in Workers : ops[w] > 0
    /\ result.Success >= 2

\* the workers whose job returned an error
Failed == {w \in Workers : jobErr[w] # None}

\* C2: after Run returns, Errors holds exactly one entry per worker whose job
\* returned an error and none for the others; len(Errors) <= Concurrency
\* always, and len(Errors) = N when every job returns a fatal error.
C2_OneErrorPerFailedWorker ==
    /\ Len(result.Errors) <= result.Concurrency
    /\ Returned =>
          /\ Len(result.Errors) = Cardinality(Failed)
          /\ \A w \in Workers :
                Cardinality({i \in 1..Len(result.Errors) : result.Errors[i] = Err(w)})
                    = (IF w \in Failed THEN 1 ELSE 0)
          /\ call.job = "fatal" => Len(result.Errors) = call.N
          /\ call.job = "do" => result.Errors = <<>>

\* one job returned an error after a Do that counted operations, the other nil
C2_Witness ==
    /\ Returned
    /\ call.N = 2
    /\ Cardinality(Failed) = 1
    /\ Len(result.Errors) = 1
    /\ \E w \in Failed : ops[w] > 0

\* C3 as stated: a run whose operations always return an error (the job
\* returning nil) ends with Failure > 0, Success = 0, an empty merged
\* histogram and no Errors.
C3_FailurePositive ==
    (Returned /\ AlwaysErrors) =>
        /\ result.Failure > 0
        /\ result.Success = 0
        /\ result.Latency = EmptyHist
        /\ result.Errors = <<>>

\* a step in which an operation's error is counted
CountsFailure == result'.Failure = result.Failure + 1

\* C3 amended: an operation that returns an error adds one to the failure
\* counter and nothing else (no success, no latency sample, no entry of
\* Errors) and the worker goes back to its loop; a run whose operations always
\* return an error ends with Failure equal to the number of operations
\* invoked (positive only if one was invoked before the deadline), Success = 0,
\* an empty merged histogram and no Errors.
C3_FailureOnlyCounts ==
    /\ [][CountsFailure =>
             /\ result'.Success = result.Success
             /\ result'.Latency = result.Latency
             /\ result'.Errors = result.Errors
             /\ hist' = hist
             /\ errors' = errors
             /\ \E w \in Workers :
                   /\ wpc[w] = "op"
                   /\ wpc'[w] = (IF call.gen = "max" THEN "check" ELSE "select")
                   /\ \A v \in Workers \ {w} : wpc'[v] = wpc[v]]_vars
    /\ [](AlwaysErrors =>
             /\ result.Success = 0
             /\ \A w \in Workers : hist[w] = EmptyHist
             /\ (Returned =>
                    /\ result.Failure = Invoked
                    /\ result.Latency = EmptyHist
                    /\ result.Errors = <<>>))

C3_Witness ==
    /\ Returned /\ AlwaysErrors
    /\ call.N = 2
    /\ \A w \in Workers : ops[w] > 0
    /\ result.Failure >= 2
    /\ result.Success = 0

\* C10: in the constant-rate generator no operation is started once the
\* duration timeout has fired, even when a tick is pending at that time.
C10_NoOperationAfterTimeout ==
    [][\A w \in Workers :
          (wpc[w] = "select" /\ wpc'[w] = "op") => now < end[w]]_vars

\* C11 as stated: the constant-rate period is concurrency / rate, so that the
\* workers of a run together attempt no more operations than rate x duration
\* (give or take one operation).
C11_PeriodSharesRate ==
    call.gen = "const" =>
        /\ call.period = (call.N * 1000000) \div call.Hz
        /\ Invoked * 1000000 <= call.Hz * call.duration + 1000000

\* the fires of worker w's ticker since its Do began
Fires(w) == (now - (end[w] - call.duration)) \div (1000000 \div call.Hz)

\* C11 amended: the period is 1/rate seconds cut to whole microseconds,
\* computed once by ConstantRate whatever the concurrency; every worker has
\* its own ticker of that period and attempts at most one operation per fire
\* of it, so N workers together are driven at up to N times the rate.
C11_PeriodPerWorker ==
    call.gen = "const" =>
        /\ call.period = 1000000 \div call.Hz
        /\ \A w \in Workers : InDo(w) => ops[w] <= Fires(w)

\* two workers at 1 MHz for 2 us have attempted four operations
C11_Witness ==
    /\ Returned
    /\ call.gen = "const" /\ call.N = 2 /\ call.Hz = 1000000 /\ call.duration = 2
    /\ \A w \in Workers : ops[w] = 2

\* C12 as stated: the orchestrator takes the start timestamp only when every
\* worker has been spawned, has built its generator and waits at the start
\* barrier.
C12_StartAfterAllWaiting ==
    opc = "release" => \A w \in Workers : wpc[w] = "wait"

\* C12 amended: the orchestrator takes the start timestamp after all N workers
\* have been spawned and before it releases the start barrier, so no worker
\* passes the barrier and no job is invoked before the timestamp is taken;
\* a worker may not yet have built its generator or reached the barrier wait
\* at that time.
C12_StartAfterSpawnBeforeRelease ==
    /\ opc = "spawn" =>
          /\ started = 1
          /\ \A w \in Workers : wpc[w] \in {"unspawned", "init", "wait"}
    /\ opc = "release" =>
          /\ started = 1
          /\ spawned = call.N
          /\ \A w \in Workers : wpc[w] \in {"init", "wait"}
    /\ opc \notin {"spawn", "release"} =>
          /\ started = 0
          /\ \A w \in Workers : wpc[w] # "unspawned"

\* the timestamp has been taken; one worker waits at the barrier, the other
\* has not built its generator yet
C12_Witness ==
    /\ opc = "release"
    /\ call.N = 2
    /\ wpc[0] = "wait"
    /\ wpc[1] = "init"

\* the workers that have sent their error, and their histogram
SentError == {w \in Workers : wpc[w] \in {"sendhist", "defer", "exited"}}
SentTimings == {w \in Workers : wpc[w] \in {"defer", "exited"}}

\* while some worker has not signaled finish the orchestrator is at or before
\* the finish barrier and has read nothing
NothingReadBeforeFinish ==
    (\E w \in Workers : wpc[w] # "exited") =>
        /\ opc \in {"spawn", "release", "join"}
        /\ finished > 0
        /\ result.Elapsed = 0
        /\ result.Latency = EmptyHist
        /\ result.Errors = <<>>
        /\ Len(timings) = Cardinality(SentTimings)
        /\ Len(errors) = Cardinality(SentError)

PastFinish == opc \in {"elapsed", "merge", "collect", "done"}

\* C13: the orchestrator takes the end timestamp, and receives and merges a
\* worker's histogram or reads its error, only after all N workers have
\* signaled finish: while some worker has not, the orchestrator is at or
\* before the finish barrier, Elapsed, Latency and Errors are untouched and
\* everything the workers sent is still in the channels; once it is past the
\* barrier every worker has exited, so none can record any more.
C13_ReadsAfterAllFinished ==
    /\ NothingReadBeforeFinish
    /\ PastFinish => (finished = 0 /\ \A w \in Workers : wpc[w] = "exited")

\* the orchestrator has merged the histogram of the worker that finished
\* first (worker 1) and has the other's still in the channel
C13_Witness ==
    /\ opc = "merge"
    /\ call.N = 2
    /\ timings = <<0>>
    /\ hist[1] # EmptyHist
    /\ result.Latency = hist[1]
    /\ now > startT

\* the samples the workers of S have recorded
RECURSIVE Samples(_)
Samples(S) ==
    IF S = {} THEN EmptyHist
    ELSE LET x == CHOOSE y \in S : TRUE IN hist[x] (+) Samples(S \ {x})

\* the workers whose histogram is in the channel
InTimings == {timings[i] : i \in 1..Len(timings)}

\* C14: every worker hands its histogram over exactly once, whether its job
\* returned an error or not and in whatever order the workers finish; the
\* orchestrator merges each exactly once, so that while it merges the
\* aggregate and the histograms still in the channel make up the samples of
\* all workers, and after Run returns the merged histogram is the union of
\* all N workers' recorded samples.
C14_MergedIsUnionOfWorkers ==
    /\ Cardinality(InTimings) = Len(timings)
    /\ opc \in {"spawn", "release", "join", "elapsed"} => InTimings = SentTimings
    /\ opc = "merge" => result.Latency (+) Samples(InTimings) = Samples(Workers)
    /\ opc \in {"collect", "done"} =>
          /\ timings = <<>>
          /\ result.Latency = Samples(Workers)

\* Run has returned; worker 1 finished first, its job returned an error after
\* a Do that recorded a sample, worker 0 recorded another
C14_Witness ==
    /\ Returned
    /\ call.N = 2
    /\ jobErr[1] # None /\ jobErr[0] = None
    /\ result.Errors = <<Err(1)>>
    /\ hist[0] # EmptyHist /\ hist[1] # EmptyHist /\ hist[0] # hist[1]
    /\ result.Latency = hist[0] (+) hist[1]

\* the operations that have returned nil, over all workers
Succeeded == SumOver(succeeded, Workers)

\* the operations that have been invoked and have not returned yet
InFlight == Cardinality({w \in Workers : wpc[w] = "op"})

\* C15: at every moment Success is the number of operations that have
\* returned nil and Failure the number that have returned an error, summed
\* over all workers, with no increment lost; after Run returns they are the
\* totals over all operations invoked; and no counter changes once the
\* orchestrator is past the finish barrier.
C15_CountersSumOverWorkers ==
    /\ [](/\ result.Success = Succeeded
           /\ result.Failure = Invoked - Succeeded - InFlight)
    /\ [](Returned => (InFlight = 0 /\ result.Success + result.Failure = Invoked))
    /\ [][PastFinish => (/\ result'.Success = result.Success
                         /\ result'.Failure = result.Failure)]_vars

\* Run has returned; both workers have had an operation succeed and one
\* fail, in a constant-rate run
C15_Witness ==
    /\ Returned
    /\ call.N = 2 /\ call.gen = "const" /\ call.op = "mixed"
    /\ \A w \in Workers : ops[w] = 2 /\ succeeded[w] = 1
    /\ result.Success = 2
    /\ result.Failure = 2

\* the order of a worker goroutine's steps
WorkerSucc ==
    {<<"unspawned", "init">>, <<"init", "wait">>, <<"wait", "job">>,
     <<"job", "senderr">>, <<"job", "check">>, <<"job", "select">>,
     <<"check", "op">>, <<"check", "senderr">>, <<"op", "check">>,
     <<"select", "op">>, <<"select", "senderr">>, <<"op", "select">>,
     <<"senderr", "sendhist">>, <<"sendhist", "defer">>, <<"defer", "exited">>}

\* C16: every one of the N workers has its job invoked exactly once (it passes
\* from the barrier into its job once and never goes back), with its own id,
\* and runs until its own job returns: a step of one worker, a job returning
\* an error included, changes nothing of another worker; a worker leaves Do
\* only when its own deadline is reached; and when Run returns every worker
\* has exited after its job returned.
C16_SiblingsRunToCompletion ==
    /\ [][\A w \in Workers :
             wpc'[w] # wpc[w] =>
                /\ <<wpc[w], wpc'[w]>> \in WorkerSucc
                /\ \A v \in Workers \ {w} :
                      /\ wpc'[v] = wpc[v]
                      /\ jobErr'[v] = jobErr[v]
                      /\ end'[v] = end[v]
                      /\ ops'[v] = ops[v]
                      /\ hist'[v] = hist[v]
                /\ (wpc[w] \in {"check", "select"} /\ wpc'[w] = "senderr") =>
                      now >= end[w]]_vars
    /\ [](\A w \in Workers : jobErr[w] \in {None, Err(w)})
    /\ [](Returned => \A w \in Workers : wpc[w] = "exited")

\* worker 0's job has returned an error at once and the worker has exited;
\* worker 1 is in its second operation
C16_Witness ==
    /\ call.N = 2
    /\ wpc[0] = "exited" /\ jobErr[0] = Err(0) /\ ops[0] = 0
    /\ wpc[1] = "op" /\ ops[1] = 2

\* ------------------------------------------------------------------------
\* Claims about Bench.AutoRun's calls of the step

\* a step of AutoRun in which the step function is called
StepCalled == Len(levels') = Len(levels) + 1

\* the calls of the step so far: one before the first run and one per Result
StepCallsMatchResults ==
    /\ apc = "start" => (levels = <<>> /\ results = <<>>)
    /\ apc \in {"loop", "run", "check", "done"} => Len(levels) = Len(results) + 1
    /\ apc = "step" => Len(levels) = Len(results)
    /\ \A i \in 1..Len(levels) :
          levels[i] = CallStep(stepCfg, IF i = 1 THEN None ELSE results[i - 1]).level

\* C17: in one AutoRun call the step is first called with nil, before any
\* run, and nil is given to no later call; every later call is made with the
\* Result just appended to results, so that the calls after the first are one
\* per Result, in order, each answered from that Result; this holds for the
\* last Result too when AutoRun stops because it has job-level errors.
C17_StepOncePerResult ==
    /\ [][StepCalled =>
             IF levels = <<>>
             THEN /\ results = <<>>
                  /\ stepArg' = None
             ELSE /\ Len(results) = Len(levels)
                  /\ results' = results
                  /\ stepArg' = results[Len(results)]
                  /\ stepArg' # None]_vars
    /\ []StepCallsMatchResults

\* AutoRun has returned three Results, the last with job-level errors, and
\* the step has been called four times, last with the third Result
C17_Witness ==
    /\ apc = "done"
    /\ Len(results) = 3
    /\ results[3].Errors # <<>>
    /\ Len(levels) = 4
    /\ stepArg = results[3]

\* ------------------------------------------------------------------------
\* Claims about the generators' loops

\* worker w goes from pc to pc2 in this step
Goes(w, pc, pc2) == wpc[w] = pc /\ wpc'[w] = pc2

\* C18 as stated: the unthrottled loop ends if now >= deadline, so that no
\* operation is started at an instant equal to or later than the deadline.
C18_NoOperationAtDeadline ==
    [][\A w \in Workers : Goes(w, "check", "op") => now < end[w]]_vars

\* C18 amended: the deadline is checked before each iteration and the loop
\* ends if now > deadline: no operation is started at an instant later than
\* the deadline, but one is started when the clock reads exactly the
\* deadline; Do returns only from that check, so an operation in flight at
\* the deadline completes and is counted before Do returns.
C18_NoOperationPastDeadline ==
    [][\A w \in Workers :
          /\ Goes(w, "check", "op") => (now <= end[w] /\ opStart'[w] = now)
          /\ Goes(w, "check", "senderr") => now > end[w]
          /\ (call.gen = "max" /\ wpc[w] = "op" /\ wpc'[w] # "op") =>
                /\ wpc'[w] = "check"
                /\ end'[w] = end[w]
                /\ result'.Success + result'.Failure
                      = result.Success + result.Failure + 1]_vars

\* an operation started when the clock read exactly the deadline is in
\* flight after the deadline
C18_Witness ==
    /\ call.gen = "max"
    /\ \E w \in Workers :
          /\ wpc[w] = "op"
          /\ opStart[w] = end[w]
          /\ now > end[w]

\* C19: in the constant-rate generator each successful operation is recorded
\* with RecordCorrectedValue whose expected interval is the period, and the
\* raw value is the time elapsed since the tick that triggered the operation.
C19_CorrectedByPeriod ==
    [][\A w \in Workers :
          (call.gen = "const" /\ succeeded'[w] = succeeded[w] + 1) =>
             LET elapsed == now - opStart[w]
             IN  Accepts(elapsed) =>
                    hist'[w] = RecordCorrectedValue(hist[w], elapsed, call.period)]_vars

\* the fires of a worker's ticker within the duration of its Do
FiresWithinDuration == call.duration \div call.period

\* C20: in the constant-rate generator every operation consumes the one tick
\* that is pending, so that fires during a slow operation coalesce into one
\* pending tick, and the operations a worker attempts never exceed the fires
\* of its ticker within the duration.
C20_OneOperationPerFire ==
    /\ [][\A w \in Workers :
             Goes(w, "select", "op") =>
                /\ tick[w] # NoTick
                /\ tick'[w] = NoTick
                /\ opStart'[w] = tick[w]
                /\ ops'[w] = ops[w] + 1]_vars
    /\ [](call.gen = "const" => \A w \in Workers : ops[w] <= FiresWithinDuration)

\* the number of samples in a histogram
TotalCount(h) == BagCardinality(h)

\* worker w's operation returns nil in this step with a latency the
\* histogram rejects
Rejected(w) ==
    /\ wpc[w] = "op"
    /\ succeeded'[w] = succeeded[w] + 1
    /\ ~Accepts(now - opStart[w])

\* C21: when the histogram rejects a latency the generator logs the error
\* and drops the value: the operation is counted as a success, the histogram
\* is unchanged, the worker goes on with its loop and no error is returned or
\* collected; rejections alone leave Errors empty, Success is the number of
\* samples recorded plus the rejections in the unthrottled mode, so never
\* below the samples of the merged histogram, and can exceed them.
C21_RejectedValueIsDropped ==
    /\ [][\A w \in Workers :
             Rejected(w) =>
                /\ logged' = logged + 1
                /\ hist' = hist
                /\ result'.Success = result.Success + 1
                /\ result'.Failure = result.Failure
                /\ result'.Errors = result.Errors
                /\ wpc'[w] = (IF call.gen = "max" THEN "check" ELSE "select")
                /\ jobErr' = jobErr
                /\ errors' = errors
                /\ end' = end]_vars
    /\ [](call.job = "do" => \A w \in Workers : jobErr[w] = None)
    /\ []((Returned /\ call.job = "do") => result.Errors = <<>>)
    /\ []((Returned /\ call.gen = "max") =>
              /\ result.Success = TotalCount(result.Latency) + logged
              /\ result.Success >= TotalCount(result.Latency))

\* an unthrottled run has returned with more successes than samples and no
\* Errors: both workers have had a latency rejected
C21_Witness ==
    /\ Returned
    /\ call.gen = "max" /\ call.job = "do" /\ call.N = 2
    /\ logged = 2
    /\ \A w \in Workers : succeeded[w] > TotalCount(hist[w])
    /\ result.Success > TotalCount(result.Latency)
    /\ result.Errors = <<>>

\* ------------------------------------------------------------------------
\* Claims about the levels FixedStep emits and the end of AutoRun

\* C22: FixedStep(min, max, increment) with min >= 1, increment >= 1 and
\* max >= min emits no positive level greater than max, also when max is not
\* a multiple of increment.
C22_NoLevelAboveMax ==
    (stepCfg.kind = "fixed" /\ stepCfg.min >= 1 /\ stepCfg.step >= 1
        /\ stepCfg.max >= stepCfg.min) =>
        \A i \in 1..Len(levels) : levels[i] > 0 => levels[i] <= stepCfg.max

\* worker w is in its job: invoked and not returned yet
InJob(w) == wpc[w] \in {"job", "check", "select", "op"}

\* the steps a worker goroutine has left outside its job
WorkerLeft(w) ==
    CASE wpc[w] = "unspawned" -> 7
      [] wpc[w] = "init"      -> 6
      [] wpc[w] = "wait"      -> 5
      [] InJob(w)             -> 4
      [] wpc[w] = "senderr"   -> 3
      [] wpc[w] = "sendhist"  -> 2
      [] wpc[w] = "defer"     -> 1
      [] wpc[w] = "exited"    -> 0

\* the steps the orchestrator has left, the receives not counted
OrchestratorLeft ==
    CASE opc = "spawn"   -> 6
      [] opc = "release" -> 5
      [] opc = "join"    -> 4
      [] opc = "elapsed" -> 3
      [] opc = "merge"   -> 2
      [] opc = "collect" -> 1
      [] opc = "done"    -> 0

\* what is left of Run outside the jobs: a send takes two of a worker's part
\* and adds one receive
StepsLeft ==
    2 * SumOver([w \in Workers |-> WorkerLeft(w)], Workers)
        + OrchestratorLeft + Len(timings) + Len(errors)

Exited == {w \in Workers : wpc[w] = "exited"}

NoJobRunning == \A w \in Workers : ~InJob(w)

\* no send blocks, every worker signals finish once, and while Run has not
\* returned and no job is running some goroutine can take a step
NothingBlocks ==
    /\ Len(errors) <= call.N
    /\ Len(timings) <= call.N
    /\ \A w \in Workers :
          /\ wpc[w] = "senderr" => ENABLED SendError(w)
          /\ wpc[w] = "sendhist" => ENABLED SendTimings(w)
          /\ wpc[w] = "defer" => (finished > 0 /\ ENABLED WorkerDone(w))
    /\ finished = call.N - Cardinality(Exited)
    /\ (opc = "join" /\ Exited = Workers) => ENABLED Join
    /\ (~Returned /\ NoJobRunning) => (StepsLeft > 0 /\ ENABLED Next)
    /\ Returned => StepsLeft = 0

\* C23: Run returns when every worker's job returns: the sends on errors and
\* timings never block (each channel has room for one value per worker),
\* every worker signals finish exactly once, which releases the
\* orchestrator's wait, and no interleaving deadlocks: while Run has not
\* returned and no job is running a step can be taken, and every such step
\* takes from what is left of Run, of which nothing is left when it returns.
C23_RunReturns ==
    /\ []NothingBlocks
    /\ [][NoJobRunning => StepsLeft' < StepsLeft]_vars

\* both jobs have returned, both workers have sent their error and wait to
\* send their histogram, the orchestrator waits at the finish barrier
C23_Witness ==
    /\ call.N = 2
    /\ opc = "join"
    /\ \A w \in Workers : wpc[w] = "sendhist"
    /\ Len(errors) = 2
    /\ finished = 2

\* the most Results AutoRun can return with FixedStep: one for min and one
\* per multiple of the increment up to the first that reaches max
MostRuns == 2 + stepCfg.max \div stepCfg.step

\* where AutoRun is in the current iteration
AutoPhase ==
    CASE apc = "start" -> 4
      [] apc = "step"  -> 3
      [] apc = "check" -> 2
      [] apc = "loop"  -> 1
      [] apc = "run"   -> 0
      [] apc = "done"  -> 0

\* what is left of AutoRun: the runs that can still come, four steps each
AutoLeft ==
    IF apc = "done" THEN 0 ELSE 4 * (MostRuns - Len(results)) + AutoPhase

\* the levels FixedStep emits go up until STOP, and the runs are bounded
LevelsGoUp ==
    /\ \A i \in 1..(Len(levels) - 1) : levels[i + 1] > 0 => levels[i + 1] > levels[i]
    /\ \A i \in 1..(Len(results) - 1) :
          results[i + 1].Concurrency > results[i].Concurrency
    /\ Len(results) <= MostRuns
    /\ AutoLeft >= 0
    /\ apc # "done" => ENABLED AutoNext

\* C24: with FixedStep(min, max, increment), increment >= 1, every positive
\* level is strictly greater than the level before it, so the Results are at
\* strictly increasing levels and at most 2 + max / increment of them; every
\* step of AutoRun, a Run that returns included, takes from what is left of
\* it and one is enabled until AutoRun returns: AutoRun terminates.
C24_AutoRunTerminates ==
    /\ []LevelsGoUp
    /\ [][AutoLeft' < AutoLeft]_vars

\* AutoRun has returned after runs at 2, 3, 6 and 9 with FixedStep(2, 8, 3)
C24_Witness ==
    /\ apc = "done"
    /\ stepCfg.kind = "fixed" /\ IsFixed(2, 8, 3)
    /\ levels = <<2, 3, 6, 9, STOP>>
    /\ Len(results) = 4
    /\ AutoLeft = 0

====
